---- MODULE Spec2Model ----
(***************************************************************************)
(* Model of pyrff/rff.py: sample_rff, _compute_inverse, _vectorize and the *)
(* three callables sample_rff returns.                                     *)
(*                                                                         *)
(* Arrays are records [shape, data] with data in row-major order.  Real    *)
(* arithmetic is modelled on integers: angles are counted in quarter turns *)
(* (so cos and sin are exact), and a result carries the factor             *)
(* sqrt(2*alpha/M) as the pair <<2*alpha, M>> next to integer              *)
(* coefficients.  The process-wide numpy random generator is a linear      *)
(* congruential generator; what is modelled of a draw is which generator   *)
(* states it consumes, not its distribution.  Outcomes of the linear       *)
(* algebra library that depend on floating point conditioning are          *)
(* nondeterministic choices.  Assertions are enabled (python without -O).  *)
(***************************************************************************)
EXTENDS Integers, Sequences, FiniteSets, TLC

\* largest extent of an array axis
MaxDim == 2
\* largest number M of fourier features
MaxM == 2
\* number of sample_rff constructions
NCalls == 2
\* number of calls made to the returned callables
MaxEvals == 3

Calls == 1..NCalls

VARIABLES
    args,    \* args[c]: the arguments of construction c
    pc,      \* pc[c]: position of construction c inside sample_rff
    err,     \* err[c]: the exception construction c raised, or "none"
    rng,     \* state of the process-wide numpy random generator
    seed0,   \* state of the generator before any construction started
    W,       \* W[c]: sampled frequencies (M, D)
    B,       \* B[c]: sampled phases (M, 1)
    theta,   \* theta[c]: sample_of_theta (M,)
    cho,     \* cho[c]: outcome and number of runs of the cholesky path
    inv,     \* inv[c]: outcome and number of runs of scipy.linalg.inv
    probe,   \* the first call made to a returned callable
    last,    \* the latest call made to a returned callable
    ncalls   \* number of calls made to returned callables

vars == <<args, pc, err, rng, seed0, W, B, theta, cho, inv, probe, last, ncalls>>

----------------------------------------------------------------------------
(* numpy arrays                                                            *)

RECURSIVE Prod(_)
Prod(s) == IF s = <<>> THEN 1 ELSE Head(s) * Prod(Tail(s))

RECURSIVE SumSeq(_)
SumSeq(s) == IF s = <<>> THEN 0 ELSE Head(s) + SumSeq(Tail(s))

Shapes(r) == [1..r -> 1..MaxDim]

ShapesUpTo(r) == UNION {Shapes(k) : k \in 0..r}

\* the array of a given shape whose entries count up from v
Array(shape, v) == [shape |-> shape, data |-> [i \in 1..Prod(shape) |-> v + i - 1]]

NoArr == [shape |-> <<0>>, data |-> <<>>]

ndim(a) == Len(a.shape)

atleast_1d(a) == IF ndim(a) = 0 THEN [shape |-> <<1>>, data |-> a.data] ELSE a

atleast_2d(a) ==
    IF ndim(a) = 0 THEN [shape |-> <<1, 1>>, data |-> a.data]
    ELSE IF ndim(a) = 1 THEN [shape |-> <<1>> \o a.shape, data |-> a.data]
    ELSE a

len(a) == a.shape[1]

\* entry [i, j] of a 2-D array (indices from 1)
At2(a, i, j) == a.data[(i - 1) * a.shape[2] + j]

\* a[0]: the first slice along the leading axis
Index0(a) ==
    [shape |-> Tail(a.shape), data |-> SubSeq(a.data, 1, Prod(Tail(a.shape)))]

\* numpy.array([a[0], a[0]])
StackFirstTwice(a) ==
    [shape |-> <<2>> \o Tail(a.shape), data |-> Index0(a).data \o Index0(a).data]

\* shape of numpy.dot(a, b) for a 2-D a and a 1-D or 2-D b
dot_shape(sa, sb) ==
    IF Len(sb) = 1 THEN <<sa[1]>> ELSE <<sa[1], sb[2]>>

Mod4(k) == k % 4

\* cos and sin of k quarter turns
Cos4(k) == CASE Mod4(k) = 0 -> 1 [] Mod4(k) = 1 -> 0 [] Mod4(k) = 2 -> -1 [] OTHER -> 0

Sin4(k) == CASE Mod4(k) = 0 -> 0 [] Mod4(k) = 1 -> 1 [] Mod4(k) = 2 -> 0 [] OTHER -> -1

----------------------------------------------------------------------------
(* the process-wide random generator                                       *)

RngNext(s) == (5 * s + 3) % 16

RECURSIVE Stream(_, _)
Stream(s, k) == IF k = 0 THEN <<>> ELSE <<s>> \o Stream(RngNext(s), k - 1)

RECURSIVE Advance(_, _)
Advance(s, k) == IF k = 0 THEN s ELSE Advance(RngNext(s), k - 1)

\* numpy.random.normal(size=(M, D))
normal(s, M, D) ==
    [shape |-> <<M, D>>, data |-> [i \in 1..(M * D) |-> (Stream(s, M * D)[i] % 3) - 1]]

\* scipy.stats.t.rvs(size=(M, D))
t_rvs(s, M, D) ==
    [shape |-> <<M, D>>, data |-> [i \in 1..(M * D) |-> (Stream(s, M * D)[i] % 5) - 2]]

\* numpy.random.uniform(0, 2*pi, size=(M, 1)), in quarter turns
uniform(s, M) ==
    [shape |-> <<M, 1>>, data |-> [i \in 1..M |-> Stream(s, M)[i] % 4]]

\* numpy.random.multivariate_normal(mean, cov) for a mean of shape (M,)
multivariate_normal(s, M) ==
    [shape |-> <<M>>, data |-> [i \in 1..M |-> (Stream(s, M)[i] % 3) - 1]]

----------------------------------------------------------------------------
(* arguments of sample_rff                                                 *)

\* a number: its sign, and whether it is infinite
Nums == {[inf |-> FALSE, sgn |-> -1], [inf |-> FALSE, sgn |-> 0],
         [inf |-> FALSE, sgn |-> 1], [inf |-> TRUE, sgn |-> -1],
         [inf |-> TRUE, sgn |-> 1]}

Pos == [inf |-> FALSE, sgn |-> 1]

PosInf == [inf |-> TRUE, sgn |-> 1]

\* kernel_nu: a python/numpy scalar, or an ndarray of one or two elements
KernelNus ==
    {[scalar |-> s, elems |-> <<n>>] : s \in BOOLEAN, n \in Nums}
        \cup {[scalar |-> FALSE, elems |-> <<Pos, Pos>>]}

\* noise and scaling: number of dimensions, and whether the value is zero
Scalars == {[ndim |-> 0, zero |-> FALSE], [ndim |-> 0, zero |-> TRUE],
            [ndim |-> 1, zero |-> FALSE]}

AllArgs ==
    [lengthscales : {Array(s, 1) : s \in ShapesUpTo(1)},
     scaling : {x \in Scalars : ~x.zero},
     noise : Scalars,
     kernel_nu : KernelNus,
     X : {Array(s, 0) : s \in ShapesUpTo(3)},
     Y : {Array(s, 0) : s \in ShapesUpTo(2)},
     M : 1..MaxM]

\* arguments that meet the documented contract of sample_rff
GoodArgs ==
    {a \in [lengthscales : {Array(s, 1) : s \in Shapes(1)},
            scaling : {[ndim |-> 0, zero |-> FALSE]},
            noise : {[ndim |-> 0, zero |-> FALSE]},
            kernel_nu : {[scalar |-> TRUE, elems |-> <<n>>] : n \in {Pos, PosInf}},
            X : {Array(s, 0) : s \in Shapes(2)},
            Y : {Array(s, 0) : s \in Shapes(1)},
            M : 1..MaxM] :
        /\ a.X.shape[1] = a.Y.shape[1]
        /\ a.X.shape[2] = a.lengthscales.shape[1]}

NoArgs == CHOOSE a \in GoodArgs : TRUE

\* good arguments with a single observation and the squared exponential kernel
OneRowArgs == {a \in GoodArgs : a.X.shape[1] = 1 /\ a.kernel_nu.elems = <<PosInf>>}

----------------------------------------------------------------------------
(* sample_rff: input checks                                                *)

isscalar(nu) == nu.scalar

GreaterZero(n) == n.sgn > 0

isinf(nu) == nu.elems[1].inf

\* the checks of lines 113-120 without the check of lengthscales
ShapeCheckSkipsLengthscales(a) ==
    LET X == atleast_2d(a.X)
        Y == atleast_1d(a.Y)
        D == X.shape[2]
        N_obs == len(Y)
    IN  \/ X.shape # <<N_obs, D>>
        \/ a.scaling.ndim # 0
        \/ a.noise.ndim # 0

\* the checks of lines 113-120, in their order
ShapeCheckFails(a) ==
    LET X == atleast_2d(a.X)
        Y == atleast_1d(a.Y)
        D == X.shape[2]
        N_obs == len(Y)
        lengthscales == atleast_1d(a.lengthscales)
    IN  \/ X.shape # <<N_obs, D>>
        \/ lengthscales.shape # <<D>>
        \/ a.scaling.ndim # 0
        \/ a.noise.ndim # 0

\* the condition of line 121, `not numpy.isscalar(kernel_nu) and kernel_nu > 0`:
\* "True", "False", or the ValueError python raises for the truth value of
\* an array of more than one element
KernelNuCondition(nu) ==
    IF ~(~isscalar(nu)) THEN "False"
    ELSE IF Len(nu.elems) > 1 THEN "ValueError"
    ELSE IF GreaterZero(nu.elems[1]) THEN "True" ELSE "False"

\* lines 108-122: the exception the input checks raise, or "none"
CheckInputs(a) ==
    IF ShapeCheckFails(a) THEN "ShapeError"
    ELSE IF KernelNuCondition(a.kernel_nu) = "True" THEN "DtypeError"
    ELSE IF KernelNuCondition(a.kernel_nu) = "ValueError" THEN "ValueError"
    ELSE "none"

\* D and N_obs of lines 110-111
DimOf(a) == atleast_2d(a.X).shape[2]

NObsOf(a) == len(atleast_1d(a.Y))

----------------------------------------------------------------------------
(* the closures                                                            *)

\* what rff_approximation and rff_approximation_gradient capture; the value
\* of scaling is 1, so that sqrt(2*alpha/M) is sqrt(2/M), kept as <<2, M>>
Closure(c) ==
    [W |-> W[c], B |-> B[c], sample_of_theta |-> theta[c],
     M |-> args[c].M, D |-> DimOf(args[c]),
     sqrt_2_alpha_over_m |-> <<2, args[c].M>>]

\* numpy.dot(W, x.T) + B at [m, n]
Angle(cl, x, m, n) ==
    SumSeq([d \in 1..cl.D |-> At2(cl.W, m, d) * At2(x, n, d)]) + cl.B.data[m]

Raised(e) == [err |-> e, shape |-> <<>>, data |-> <<>>, unit |-> <<>>]

\* lines 169-175, for a 2-D x
rff_approximation(cl, x) ==
    LET N == x.shape[1] IN
    IF x.shape # <<N, cl.D>> THEN Raised("AssertionError")
    ELSE [err |-> "none",
          shape |-> <<N>>,
          data |-> [n \in 1..N |->
                      SumSeq([m \in 1..cl.M |->
                                Cos4(Angle(cl, x, m, n)) * cl.sample_of_theta.data[m]])],
          unit |-> cl.sqrt_2_alpha_over_m]

\* lines 190-199, for a 2-D x
rff_approximation_gradient(cl, x) ==
    LET N == x.shape[1] IN
    IF x.shape # <<N, cl.D>> THEN Raised("AssertionError")
    ELSE [err |-> "none",
          shape |-> <<N, cl.D>>,
          data |-> [i \in 1..(N * cl.D) |->
                      LET n == ((i - 1) \div cl.D) + 1
                          d == ((i - 1) % cl.D) + 1
                      IN  SumSeq([m \in 1..cl.M |->
                                    (0 - Sin4(Angle(cl, x, m, n))) * At2(cl.W, m, d)
                                        * cl.sample_of_theta.data[m]])],
          unit |-> cl.sqrt_2_alpha_over_m]

\* the function a callable wraps; numba.njit(fun) runs the body of fun
Apply(fun, cl, x2d) ==
    IF fun = "rff_approximation" THEN rff_approximation(cl, x2d)
    ELSE rff_approximation_gradient(cl, x2d)

\* a wrapper that never decrements the rank of the result
wrapperKeepsRank(fun, cl, x) == Apply(fun, cl, atleast_2d(x))

\* a wrapper that also decrements the rank of the result for a 0-d input
wrapperDecrementsScalar(fun, cl, x) ==
    LET x2d == atleast_2d(x)
        r == Apply(fun, cl, x2d)
    IN  IF r.err # "none" THEN r
        ELSE IF ndim(x) <= 1
             THEN [err |-> "none", shape |-> Index0(r).shape,
                   data |-> Index0(r).data, unit |-> r.unit]
             ELSE r

\* _vectorize(fun)(x), lines 34-39
wrapper(fun, cl, x) ==
    LET x2d == atleast_2d(x)
        r == Apply(fun, cl, x2d)
    IN  IF r.err # "none" THEN r
        ELSE IF ndim(x) = 1
             THEN [err |-> "none", shape |-> Index0(r).shape,
                   data |-> Index0(r).data, unit |-> r.unit]
             ELSE r

\* the function each returned callable wraps, lines 207-209
Wrapped(fn) ==
    CASE fn = "f_rff" -> "rff_approximation"
      [] fn = "f_rff_njit" -> "rff_approximation"
      [] OTHER -> "rff_approximation_gradient"

\* inputs given to the returned callables
Inputs == {Array(s, 1) : s \in ShapesUpTo(2)}

NoCall == [c |-> 0, fn |-> "none", x |-> Array(<<>>, 0), out |-> Raised("none")]

----------------------------------------------------------------------------
(* sample_rff, one action per stage                                        *)

NotRun == [out |-> "none", runs |-> 0]

Raise(c, e) ==
    /\ pc' = [pc EXCEPT ![c] = "raised"]
    /\ err' = [err EXCEPT ![c] = e]

Goto(c, l) ==
    /\ pc' = [pc EXCEPT ![c] = l]
    /\ UNCHANGED err

\* the input checks run after the frequencies were drawn
ValidateAfterDraw(c) ==
    /\ pc[c] = "validate"
    /\ W' = [W EXCEPT ![c] = normal(rng, args[c].M, DimOf(args[c]))]
    /\ rng' = Advance(rng, args[c].M * DimOf(args[c]))
    /\ IF CheckInputs(args[c]) = "none"
       THEN Goto(c, "sample_B")
       ELSE Raise(c, CheckInputs(args[c]))
    /\ UNCHANGED <<args, seed0, B, theta, cho, inv, probe, last, ncalls>>

\* lines 108-122
Validate(c) ==
    /\ pc[c] = "validate"
    /\ IF CheckInputs(args[c]) = "none"
       THEN Goto(c, "sample_W")
       ELSE Raise(c, CheckInputs(args[c]))
    /\ UNCHANGED <<args, rng, seed0, W, B, theta, cho, inv, probe, last, ncalls>>

\* lines 125-133: W = p_w(size=(M, D)); scipy.stats.t.rvs rejects df <= 0
\* with a ValueError before it draws
SampleW(c) ==
    /\ pc[c] = "sample_W"
    /\ LET M == args[c].M
           D == DimOf(args[c])
           nu == args[c].kernel_nu
       IN  IF isinf(nu)
           THEN /\ W' = [W EXCEPT ![c] = normal(rng, M, D)]
                /\ rng' = Advance(rng, M * D)
                /\ Goto(c, "sample_B")
           ELSE IF GreaterZero(nu.elems[1])
           THEN /\ W' = [W EXCEPT ![c] = t_rvs(rng, M, D)]
                /\ rng' = Advance(rng, M * D)
                /\ Goto(c, "sample_B")
           ELSE /\ Raise(c, "ValueError")
                /\ UNCHANGED <<W, rng>>
    /\ UNCHANGED <<args, seed0, B, theta, cho, inv, probe, last, ncalls>>

\* line 134
SampleB(c) ==
    /\ pc[c] = "sample_B"
    /\ B' = [B EXCEPT ![c] = uniform(rng, args[c].M)]
    /\ rng' = Advance(rng, args[c].M)
    /\ Goto(c, "inverse")
    /\ UNCHANGED <<args, seed0, W, theta, cho, inv, probe, last, ncalls>>

\* an except clause that catches every exception
CaughtAny(e) == e # "ok"

\* the exceptions the `except` clause of line 24 catches
Caught(e) == e = "LinAlgError"

\* what scipy.linalg.cho_factor / cho_solve can do with A of line 144:
\* A holds inf or nan when noise is 0, and check_finite rejects it with a
\* ValueError; a finite A is factorised, or found not positive definite
ChoOutcomes(a) ==
    IF a.noise.zero THEN {"ValueError"} ELSE {"ok", "LinAlgError"}

\* what scipy.linalg.inv can do with a finite A: invert it, or find it singular
InvOutcomes == {"ok", "LinAlgError"}

\* lines 137-145 and the try block of _compute_inverse, lines 20-23
CholeskyPath(c) ==
    /\ pc[c] = "inverse"
    /\ \E o \in ChoOutcomes(args[c]) :
         /\ cho' = [cho EXCEPT ![c] = [out |-> o, runs |-> cho[c].runs + 1]]
         /\ IF o = "ok" THEN Goto(c, "posterior")
            ELSE IF Caught(o) THEN Goto(c, "fallback")
            ELSE Raise(c, o)
    /\ UNCHANGED <<args, rng, seed0, W, B, theta, inv, probe, last, ncalls>>

\* the except block of _compute_inverse, lines 24-26
Fallback(c) ==
    /\ pc[c] = "fallback"
    /\ \E o \in InvOutcomes :
         /\ inv' = [inv EXCEPT ![c] = [out |-> o, runs |-> inv[c].runs + 1]]
         /\ IF o = "ok" THEN Goto(c, "posterior") ELSE Raise(c, o)
    /\ UNCHANGED <<args, rng, seed0, W, B, theta, cho, probe, last, ncalls>>

\* lines 146-154: the posterior mean and the draw of sample_of_theta
Posterior(c) ==
    /\ pc[c] = "posterior"
    /\ LET M == args[c].M
           zeta_shape == <<M, NObsOf(args[c])>>
           mean_shape == dot_shape(zeta_shape, atleast_1d(args[c].Y).shape)
       IN  IF mean_shape # <<M>>
           THEN /\ Raise(c, "AssertionError")
                /\ UNCHANGED <<theta, rng>>
           ELSE /\ theta' = [theta EXCEPT ![c] = multivariate_normal(rng, M)]
                /\ rng' = Advance(rng, M)
                /\ Goto(c, "self_check")
    /\ UNCHANGED <<args, seed0, W, B, cho, inv, probe, last, ncalls>>

\* lines 202-211: the probe of both functions on X_test, then the return
Return(c) ==
    /\ pc[c] = "self_check"
    /\ LET X_test == StackFirstTwice(atleast_2d(args[c].X))
           D == DimOf(args[c])
       IN  IF /\ rff_approximation(Closure(c), X_test).shape = <<2>>
              /\ rff_approximation_gradient(Closure(c), X_test).shape = <<2, D>>
           THEN Goto(c, "returned")
           ELSE Raise(c, "AssertionError")
    /\ UNCHANGED <<args, rng, seed0, W, B, theta, cho, inv, probe, last, ncalls>>

----------------------------------------------------------------------------
(* the returned callables                                                  *)

Record(c, fn, x) ==
    LET call == [c |-> c, fn |-> fn, x |-> x,
                 out |-> wrapper(Wrapped(fn), Closure(c), x)]
    IN  /\ ncalls < MaxEvals
        /\ ncalls' = ncalls + 1
        /\ last' = call
        /\ probe' = IF probe.fn = "none" THEN call ELSE probe

\* f_rff(x)
CallF(c) ==
    /\ pc[c] = "returned"
    /\ \E x \in Inputs : Record(c, "f_rff", x)
    /\ UNCHANGED <<args, pc, err, rng, seed0, W, B, theta, cho, inv>>

\* f_rff_njit(x)
CallFNjit(c) ==
    /\ pc[c] = "returned"
    /\ \E x \in Inputs : Record(c, "f_rff_njit", x)
    /\ UNCHANGED <<args, pc, err, rng, seed0, W, B, theta, cho, inv>>

\* a gradient that negates the captured sample_of_theta in place
CallGNjitInPlace(c) ==
    /\ pc[c] = "returned"
    /\ \E x \in Inputs : Record(c, "g_rff_njit", x)
    /\ theta' = [theta EXCEPT ![c] = [@ EXCEPT !.data = [i \in 1..Len(@) |-> 0 - @[i]]]]
    /\ UNCHANGED <<args, pc, err, rng, seed0, W, B, cho, inv>>

\* g_rff_njit(x)
CallGNjit(c) ==
    /\ pc[c] = "returned"
    /\ \E x \in Inputs : Record(c, "g_rff_njit", x)
    /\ UNCHANGED <<args, pc, err, rng, seed0, W, B, theta, cho, inv>>

----------------------------------------------------------------------------
(* specifications                                                          *)

\* constructions in `active` are called with arguments out of A
InitWith(A, active, seeds) ==
    /\ \E a \in [active -> A] :
         args = [c \in Calls |-> IF c \in active THEN a[c] ELSE NoArgs]
    /\ pc = [c \in Calls |-> IF c \in active THEN "validate" ELSE "unused"]
    /\ err = [c \in Calls |-> "none"]
    /\ seed0 \in seeds
    /\ rng = seed0
    /\ W = [c \in Calls |-> NoArr]
    /\ B = [c \in Calls |-> NoArr]
    /\ theta = [c \in Calls |-> NoArr]
    /\ cho = [c \in Calls |-> NotRun]
    /\ inv = [c \in Calls |-> NotRun]
    /\ probe = NoCall
    /\ last = NoCall
    /\ ncalls = 0

Construct(c) ==
    \/ Validate(c)
    \/ SampleW(c)
    \/ SampleB(c)
    \/ CholeskyPath(c)
    \/ Fallback(c)
    \/ Posterior(c)
    \/ Return(c)

\* one call of sample_rff with any arguments
Init == InitWith(AllArgs, {1}, {0})

Next == \E c \in Calls : Construct(c)

Spec == Init /\ [][Next]_vars

\* one call of sample_rff with good arguments of one row, then calls of what
\* it returned
InitCall == InitWith(OneRowArgs, {1}, {0})

NextCall ==
    \E c \in Calls : Construct(c) \/ CallF(c) \/ CallFNjit(c) \/ CallGNjit(c)

SpecCall == InitCall /\ [][NextCall]_vars

\* all constructions, with good arguments of one row, in any interleaving of their stages
InitAll == InitWith(OneRowArgs, Calls, {0})

NextAll == \E c \in Calls : Construct(c)

SpecAll == InitAll /\ [][NextAll]_vars

----------------------------------------------------------------------------
(* properties                                                              *)

Done(c) == pc[c] \in {"returned", "raised"}

\* kernel_nu is a scalar above zero (+inf included)
PositiveScalar(nu) == nu.scalar /\ nu.elems[1].sgn > 0

\* a's arguments other than kernel_nu meet the documented contract
OtherArgsGood(a) == [a EXCEPT !.kernel_nu = [scalar |-> TRUE, elems |-> <<Pos>>]] \in GoodArgs

\* a's arguments other than Y meet the documented contract
ArgsButYGood(a) ==
    /\ ndim(a.X) = 2
    /\ a.lengthscales.shape = <<a.X.shape[2]>>
    /\ a.scaling = [ndim |-> 0, zero |-> FALSE]
    /\ a.noise = [ndim |-> 0, zero |-> FALSE]
    /\ PositiveScalar(a.kernel_nu)

\* C1: a call whose other arguments are valid and whose kernel_nu is not a
\* positive scalar ends with DtypeError.
C1_BadKernelNuRaisesDtypeError ==
    \A c \in Calls :
        (Done(c) /\ OtherArgsGood(args[c]) /\ ~PositiveScalar(args[c].kernel_nu))
            => (pc[c] = "raised" /\ err[c] = "DtypeError")

\* C2: a call in which the rows of the 2-D X differ from the length of Y, or
\* the length of lengthscales differs from the columns D of X, ends with
\* ShapeError.
C2_MismatchRaisesShapeError ==
    \A c \in Calls :
        LET X == atleast_2d(args[c].X)
            Y == atleast_1d(args[c].Y)
            l == atleast_1d(args[c].lengthscales)
        IN  (Done(c) /\ (X.shape[1] # Y.shape[1] \/ l.shape[1] # X.shape[2]))
                => (pc[c] = "raised" /\ err[c] = "ShapeError")

\* a call with matching X and Y and a lengthscales of another length than D
\* has ended with ShapeError
C2_Witness ==
    \E c \in Calls :
        /\ pc[c] = "raised" /\ err[c] = "ShapeError"
        /\ args[c].X.shape = <<2, 2>> /\ args[c].Y.shape = <<2>>
        /\ args[c].lengthscales.shape = <<1>>

\* C3: a call whose Y is not 1-dimensional after normalisation (its other
\* arguments being valid, X with as many rows as Y) ends with ShapeError.
C3_BadYRaisesShapeError ==
    \A c \in Calls :
        (/\ Done(c)
         /\ ArgsButYGood(args[c])
         /\ ndim(atleast_1d(args[c].Y)) # 1
         /\ args[c].X.shape[1] = args[c].Y.shape[1])
            => (pc[c] = "raised" /\ err[c] = "ShapeError")

C9_ValidationBeforeSampling ==
    \A c \in Calls :
        (pc[c] = "raised" /\ err[c] \in {"ShapeError", "DtypeError"})
            => (W[c] = NoArr /\ B[c] = NoArr /\ theta[c] = NoArr /\ rng = seed0)

\* a call has ended with DtypeError
C9_Witness ==
    \E c \in Calls :
        /\ pc[c] = "raised" /\ err[c] = "DtypeError"
        /\ ~ShapeCheckFails(args[c])

C6_CallablesArePure ==
    /\ [][\A c \in Calls :
            pc[c] = "returned" =>
                (W'[c] = W[c] /\ B'[c] = B[c] /\ theta'[c] = theta[c])]_vars
    /\ []((probe.c = last.c /\ probe.fn = last.fn /\ probe.x = last.x)
            => probe.out = last.out)

\* the first call was repeated as the third call
C6_Witness ==
    /\ ncalls = 3
    /\ probe.fn = "g_rff_njit" /\ probe.fn = last.fn
    /\ probe.c = last.c /\ probe.x = last.x
    /\ probe.out.err = "none"

\* the 0-d input x = 1.0
ScalarOne == Array(<<>>, 1)

\* C10 as stated: for D = 1, f and f_fast at the scalar x = 1.0 return rank-0
\* values, and the two are equal.
C10_ScalarInScalarOut ==
    (last.fn \in {"f_rff", "f_rff_njit"} /\ last.x = ScalarOne
        /\ DimOf(args[last.c]) = 1)
      => /\ last.out.err = "none"
         /\ last.out.shape = <<>>
         /\ (probe.fn \in {"f_rff", "f_rff_njit"} /\ probe.x = ScalarOne
                /\ probe.c = last.c) => probe.out = last.out

\* C10 amended: for D = 1, f and f_fast at the scalar x = 1.0 return arrays of
\* shape (1,), and the two are equal.
C10_ScalarInVectorOut ==
    (last.fn \in {"f_rff", "f_rff_njit"} /\ last.x = ScalarOne
        /\ DimOf(args[last.c]) = 1)
      => /\ last.out.err = "none"
         /\ last.out.shape = <<1>>
         /\ (probe.fn \in {"f_rff", "f_rff_njit"} /\ probe.x = ScalarOne
                /\ probe.c = last.c) => probe.out = last.out

\* f and then f_fast were evaluated at x = 1.0 for D = 1
C10_Witness ==
    /\ probe.fn = "f_rff" /\ last.fn = "f_rff_njit"
    /\ probe.x = ScalarOne /\ last.x = ScalarOne
    /\ probe.c = last.c
    /\ DimOf(args[last.c]) = 1
    /\ last.out.shape = <<1>>

\* what a construction with arguments a draws when it runs alone, starting
\* from generator state s
DrawnAlone(s, a) ==
    LET M == a.M
        D == DimOf(a)
    IN  [W |-> IF isinf(a.kernel_nu) THEN normal(s, M, D) ELSE t_rvs(s, M, D),
         B |-> uniform(Advance(s, M * D), M),
         theta |-> multivariate_normal(Advance(s, M * D + M), M)]

\* C7: what a construction draws does not depend on whether or when another
\* construction runs: it is what the construction draws when it runs alone.
C7_ConstructionsIndependent ==
    \A c \in Calls :
        pc[c] = "returned" =>
            [W |-> W[c], B |-> B[c], theta |-> theta[c]] = DrawnAlone(seed0, args[c])

====
